---- MODULE Spec2Model ----
(***************************************************************************)
(* Model of src/app.py: the start-up sequence of the ACE-Step service.     *)
(* main() probes the accelerator, derives the offload flag, reads the      *)
(* service configuration from the process environment, initializes the     *)
(* DiT handler and then the LM handler, assembles init_params and builds,  *)
(* queues and launches the Gradio interface.                               *)
(*                                                                         *)
(* The handlers and the interface are collaborators whose code is outside  *)
(* app.py: a call to one of them either returns a value of the shape       *)
(* main() unpacks or raises.  app.py guards only the body of               *)
(* get_gpu_memory_gb with try/except; an exception raised anywhere else    *)
(* leaves main().                                                          *)
(***************************************************************************)
EXTENDS Integers, Sequences, FiniteSets, TLC

VARIABLES
    pc,                  \* position of main()
    environ,             \* os.environ: the SERVICE_MODE_* variables that are set
    cuda,                \* behaviour of torch.cuda on this host
    gpu_memory_gb,       \* main's local, a rational [num, den]
    auto_offload,        \* main's local
    dit_handler,         \* attributes of the AceStepHandler instance
    config_path,         \* main's local
    lm_model_path,       \* main's local
    backend,             \* main's local
    device,              \* main's local
    use_flash_attention, \* main's local
    init_status,         \* main's local
    enable_generate,     \* main's local
    lm_status,           \* main's local
    lm_success,          \* main's local
    dit_calls,           \* keyword arguments of each initialize_service call
    dit_returns,         \* value returned by each initialize_service call
    llm_calls,           \* keyword arguments of each llm_handler.initialize call
    llm_returns,         \* value returned by each llm_handler.initialize call
    init_params,         \* the init_params dicts built so far
    demo,                \* the Gradio Blocks object
    raised,              \* call whose exception left main(), or "none"
    stdout               \* the lines main() has printed to sys.stdout

vars == <<pc, environ, cuda, gpu_memory_gb, auto_offload, dit_handler,
          config_path, lm_model_path, backend, device, use_flash_attention,
          init_status, enable_generate, lm_status, lm_success,
          dit_calls, dit_returns, llm_calls, llm_returns,
          init_params, demo, raised, stdout>>

---------------------------------------------------------------------------
(* Bounds of the model *)

\* memory units per 1024**3 bytes: total_memory is counted in 1/UnitsPerGB GB
UnitsPerGB == 2

\* largest total_memory reported by the device, in memory units
MaxTotalMemory == 48

---------------------------------------------------------------------------
(* Program constants *)

OffloadThresholdGB == 16

QueueMaxSize == 20

ServerPort == 7860

persistent_storage_path == "/data"

DefaultDitModel == "acestep-v15-turbo-fix-inst-shift-dynamic"

DefaultLmModel == "acestep-5Hz-lm-1.7B-v4-fix"

DefaultBackend == "vllm"

---------------------------------------------------------------------------
(* Inputs *)

EnvKeys == {"SERVICE_MODE_DIT_MODEL", "SERVICE_MODE_LM_MODEL", "SERVICE_MODE_BACKEND"}

\* values an operator may export; the empty string is a value that is set
EnvValues == {"", "alt-backend"}

Environments == UNION {[K -> EnvValues] : K \in SUBSET EnvKeys}

\* torch.cuda: is_available() returns or raises, get_device_properties(0)
\* returns a device with total_memory or raises
CudaBehaviours ==
    {[is_available |-> "False", properties |-> "unused", total_memory |-> 0],
     [is_available |-> "raise", properties |-> "unused", total_memory |-> 0],
     [is_available |-> "True", properties |-> "raise", total_memory |-> 0]}
    \cup {[is_available |-> "True", properties |-> "ok", total_memory |-> n] :
            n \in 0..MaxTotalMemory}

\* status strings the DiT handler may report
DitMessages == {"ok", "error: no weights\nsee log"}

\* status strings the LM handler may report
LmMessages == {"ok", ""}

\* attributes the handler has after construction: dtype, and the directory
\* _get_checkpoint_dir() names
NewHandler == [created |-> TRUE, dtype |-> "bfloat16",
               checkpoint_dir |-> "./checkpoints"]

\* attributes the handler may have once initialize_service is over
HandlerStates == {NewHandler,
                  [created |-> TRUE, dtype |-> "float32",
                   checkpoint_dir |-> "/data/checkpoints"]}

---------------------------------------------------------------------------
(* Pure parts of app.py *)

\* a lookup that takes an empty value for a missing one
EnvironGet_OrDefault(env, key, default) ==
    IF key \in DOMAIN env /\ env[key] # "" THEN env[key] ELSE default

\* os.environ.get(key, default)
EnvironGet(env, key, default) ==
    IF key \in DOMAIN env THEN env[key] ELSE default

\* the int 0 that get_gpu_memory_gb returns without a device
Zero == [num |-> 0, den |-> 1]

\* total_memory / (1024**3)
MemoryGb(total_memory) == [num |-> total_memory, den |-> UnitsPerGB]

\* lines 37-42, the body of the try block: the value it returns, or raises
ProbeBody(c) ==
    IF c.is_available = "raise" THEN [raises |-> TRUE, value |-> Zero]
    ELSE IF c.is_available = "True"
         THEN IF c.properties = "raise"
              THEN [raises |-> TRUE, value |-> Zero]
              ELSE [raises |-> FALSE, value |-> MemoryGb(c.total_memory)]
         ELSE [raises |-> FALSE, value |-> Zero]

\* the probe without its except clause
get_gpu_memory_gb_NoExcept(c) == ProbeBody(c)

\* get_gpu_memory_gb(): the try block, with "except Exception: return 0"
get_gpu_memory_gb(c) ==
    LET r == ProbeBody(c) IN
      IF r.raises THEN [raises |-> FALSE, value |-> Zero] ELSE r

\* the threshold taken inclusively
AutoOffload_Inclusive(m) == m.num > 0 /\ m.num <= OffloadThresholdGB * m.den

\* gpu_memory_gb > 0 and gpu_memory_gb < 16
AutoOffload(m) == m.num > 0 /\ m.num < OffloadThresholdGB * m.den

\* str() of a Python bool
PyBool(b) == IF b THEN "True" ELSE "False"

\* f"{gpu_memory_gb:.2f}": the reading in hundredths, rounded half to even,
\* written with two decimals
FormatGb(m) ==
    LET q == (100 * m.num) \div m.den
        r == (100 * m.num) % m.den
        h == IF 2 * r < m.den THEN q
             ELSE IF 2 * r > m.den THEN q + 1
             ELSE IF q % 2 = 0 THEN q ELSE q + 1
        cents == h % 100
    IN ToString(h \div 100) \o "."
         \o (IF cents < 10 THEN "0" ELSE "") \o ToString(cents)

\* an else branch that takes every reading without offload for a large GPU
OffloadReport_ZeroAsLarge(m, offload) ==
    IF offload
    THEN <<"Detected GPU memory: " \o FormatGb(m) \o " GB (< 16GB)",
           "Auto-enabling CPU offload to reduce GPU memory usage">>
    ELSE <<"Detected GPU memory: " \o FormatGb(m) \o " GB (>= 16GB)",
           "CPU offload disabled by default">>

\* lines 58-65: what main() prints about the reading
OffloadReport(m, offload) ==
    IF offload
    THEN <<"Detected GPU memory: " \o FormatGb(m) \o " GB (< 16GB)",
           "Auto-enabling CPU offload to reduce GPU memory usage">>
    ELSE IF m.num > 0
    THEN <<"Detected GPU memory: " \o FormatGb(m) \o " GB (>= 16GB)",
           "CPU offload disabled by default">>
    ELSE <<"No GPU detected, running on CPU">>

\* lines 85-89: what main() prints about the configuration
ConfigReport(dit, lm, be, offload) ==
    <<"Service mode configuration:",
      "  DiT model: " \o dit,
      "  LM model: " \o lm,
      "  Backend: " \o be,
      "  Offload to CPU: " \o PyBool(offload)>>

\* lines 155, 165, 169: the line printed before each call of the front-end
FrontEndCallLine(p) ==
    IF p = "RecordAssembled" THEN "Creating Gradio interface..."
    ELSE IF p = "InterfaceCreated" THEN "Enabling queue for multi-user support..."
    ELSE "Launching server on 0.0.0.0:" \o ToString(ServerPort) \o "..."

\* init_status += f"\n{lm_status}"
AppendStatus(status, lm) == status \o "\n" \o lm

\* dit_handler._get_checkpoint_dir()
GetCheckpointDir(h) == h.checkpoint_dir

---------------------------------------------------------------------------
(* State machine of main() *)

NoDemo == [built |-> FALSE, queue_max_size |-> 0, launched |-> FALSE,
           init_params |-> <<>>]

Init ==
    /\ pc = "start"
    /\ environ \in Environments
    /\ cuda \in CudaBehaviours
    /\ gpu_memory_gb = Zero
    /\ auto_offload = FALSE
    /\ dit_handler = [created |-> FALSE, dtype |-> "bfloat16", checkpoint_dir |-> ""]
    /\ config_path = ""
    /\ lm_model_path = ""
    /\ backend = ""
    /\ device = ""
    /\ use_flash_attention = FALSE
    /\ init_status = ""
    /\ enable_generate = FALSE
    /\ lm_status = ""
    /\ lm_success = FALSE
    /\ dit_calls = <<>>
    /\ dit_returns = <<>>
    /\ llm_calls = <<>>
    /\ llm_returns = <<>>
    /\ init_params = <<>>
    /\ demo = NoDemo
    /\ raised = "none"
    /\ stdout = <<>>

\* line 55: gpu_memory_gb = get_gpu_memory_gb()
Probe ==
    /\ pc = "start"
    /\ LET r == get_gpu_memory_gb(cuda) IN
         IF r.raises
         THEN /\ pc' = "raised"
              /\ raised' = "get_gpu_memory_gb"
              /\ UNCHANGED gpu_memory_gb
         ELSE /\ pc' = "probed"
              /\ gpu_memory_gb' = r.value
              /\ UNCHANGED raised
    /\ UNCHANGED <<environ, cuda, auto_offload, dit_handler, config_path,
                   lm_model_path, backend, device, use_flash_attention,
                   init_status, enable_generate, lm_status, lm_success,
                   dit_calls, dit_returns, llm_calls, llm_returns,
                   init_params, demo, stdout>>

\* lines 56-65: auto_offload
DeriveOffload ==
    /\ pc = "probed"
    /\ auto_offload' = AutoOffload(gpu_memory_gb)
    /\ pc' = "offload_derived"
    /\ stdout' = stdout \o OffloadReport(gpu_memory_gb, auto_offload')
    /\ UNCHANGED <<environ, cuda, gpu_memory_gb, dit_handler, config_path,
                   lm_model_path, backend, device, use_flash_attention,
                   init_status, enable_generate, lm_status, lm_success,
                   dit_calls, dit_returns, llm_calls, llm_returns,
                   init_params, demo, raised>>

\* lines 67-71: the handler instances
CreateHandlers ==
    /\ pc = "offload_derived"
    /\ dit_handler' = NewHandler
    /\ pc' = "handlers_created"
    /\ stdout' = Append(stdout, "Creating handlers...")
    /\ UNCHANGED <<environ, cuda, gpu_memory_gb, auto_offload, config_path,
                   lm_model_path, backend, device, use_flash_attention,
                   init_status, enable_generate, lm_status, lm_success,
                   dit_calls, dit_returns, llm_calls, llm_returns,
                   init_params, demo, raised>>

\* lines 73-83: service mode configuration
ReadConfig ==
    /\ pc = "handlers_created"
    /\ config_path' = EnvironGet(environ, "SERVICE_MODE_DIT_MODEL", DefaultDitModel)
    /\ lm_model_path' = EnvironGet(environ, "SERVICE_MODE_LM_MODEL", DefaultLmModel)
    /\ backend' = EnvironGet(environ, "SERVICE_MODE_BACKEND", DefaultBackend)
    /\ device' = "auto"
    /\ pc' = "configured"
    /\ stdout' = stdout \o ConfigReport(config_path', lm_model_path', backend',
                                      auto_offload)
    /\ UNCHANGED <<environ, cuda, gpu_memory_gb, auto_offload, dit_handler,
                   use_flash_attention,
                   init_status, enable_generate, lm_status, lm_success,
                   dit_calls, dit_returns, llm_calls, llm_returns,
                   init_params, demo, raised>>

\* line 92: dit_handler.is_flash_attention_available()
QueryFlashAttention ==
    /\ pc = "configured"
    /\ \E b \in BOOLEAN : use_flash_attention' = b
    /\ pc' = "NotStarted"
    /\ stdout' = Append(stdout, "  Flash Attention: " \o PyBool(use_flash_attention'))
    /\ UNCHANGED <<environ, cuda, gpu_memory_gb, auto_offload, dit_handler,
                   config_path, lm_model_path, backend, device,
                   init_status, enable_generate, lm_status, lm_success,
                   dit_calls, dit_returns, llm_calls, llm_returns,
                   init_params, demo, raised>>

\* lines 97-105: the call of dit_handler.initialize_service
InvokePrimary ==
    /\ pc = "NotStarted"
    /\ dit_calls' = Append(dit_calls,
                           [config_path |-> config_path,
                            device |-> device,
                            use_flash_attention |-> use_flash_attention,
                            compile_model |-> FALSE,
                            offload_to_cpu |-> auto_offload,
                            offload_dit_to_cpu |-> FALSE])
    /\ pc' = "PrimaryInProgress"
    /\ stdout' = Append(stdout, "Initializing DiT model: " \o config_path \o "...")
    /\ UNCHANGED <<environ, cuda, gpu_memory_gb, auto_offload, dit_handler,
                   config_path, lm_model_path, backend, device,
                   use_flash_attention,
                   init_status, enable_generate, lm_status, lm_success,
                   dit_returns, llm_calls, llm_returns,
                   init_params, demo, raised>>

\* a coordinator that throws the status of a failed DiT initialization away
PrimaryReturns_DiscardFailure ==
    /\ pc = "PrimaryInProgress"
    /\ \E msg \in DitMessages, ok \in BOOLEAN, h \in HandlerStates :
         /\ dit_returns' = Append(dit_returns, [status |-> msg, success |-> ok])
         /\ init_status' = IF ok THEN msg ELSE ""
         /\ enable_generate' = ok
         /\ dit_handler' = h
    /\ pc' = "PrimaryDone"
    /\ stdout' = IF enable_generate'
               THEN Append(stdout, "DiT model initialized successfully")
               ELSE stdout
    /\ UNCHANGED <<environ, cuda, gpu_memory_gb, auto_offload,
                   config_path, lm_model_path, backend, device,
                   use_flash_attention, lm_status, lm_success,
                   dit_calls, llm_calls, llm_returns,
                   init_params, demo, raised>>

\* a coordinator that calls initialize_service again after a failure
PrimaryReturns_Retry ==
    /\ pc = "PrimaryInProgress"
    /\ \E msg \in DitMessages, ok \in BOOLEAN, h \in HandlerStates :
         /\ dit_returns' = Append(dit_returns, [status |-> msg, success |-> ok])
         /\ init_status' = msg
         /\ enable_generate' = ok
         /\ dit_handler' = h
         /\ pc' = IF ok THEN "PrimaryDone" ELSE "NotStarted"
    /\ stdout' = IF enable_generate'
               THEN Append(stdout, "DiT model initialized successfully")
               ELSE stdout
    /\ UNCHANGED <<environ, cuda, gpu_memory_gb, auto_offload,
                   config_path, lm_model_path, backend, device,
                   use_flash_attention, lm_status, lm_success,
                   dit_calls, llm_calls, llm_returns,
                   init_params, demo, raised>>

\* lines 97, 107-110: initialize_service returns (init_status, enable_generate);
\* the handler has set its dtype and its checkpoint directory meanwhile
PrimaryReturns ==
    /\ pc = "PrimaryInProgress"
    /\ \E msg \in DitMessages, ok \in BOOLEAN, h \in HandlerStates :
         /\ dit_returns' = Append(dit_returns, [status |-> msg, success |-> ok])
         /\ init_status' = msg
         /\ enable_generate' = ok
         /\ dit_handler' = h
    /\ pc' = "PrimaryDone"
    /\ stdout' = IF enable_generate'
               THEN Append(stdout, "DiT model initialized successfully")
               ELSE stdout
    /\ UNCHANGED <<environ, cuda, gpu_memory_gb, auto_offload,
                   config_path, lm_model_path, backend, device,
                   use_flash_attention, lm_status, lm_success,
                   dit_calls, llm_calls, llm_returns,
                   init_params, demo, raised>>

\* line 97 has no try: an exception in initialize_service leaves main()
PrimaryRaises ==
    /\ pc = "PrimaryInProgress"
    /\ pc' = "raised"
    /\ raised' = "initialize_service"
    /\ UNCHANGED <<environ, cuda, gpu_memory_gb, auto_offload, dit_handler,
                   config_path, lm_model_path, backend, device,
                   use_flash_attention,
                   init_status, enable_generate, lm_status, lm_success,
                   dit_calls, dit_returns, llm_calls, llm_returns,
                   init_params, demo, stdout>>

\* a coordinator that skips the LM when the DiT model failed
InvokeSecondary_SkipOnFailure ==
    /\ pc = "PrimaryDone"
    /\ IF enable_generate
       THEN /\ llm_calls' = Append(llm_calls,
                                   [checkpoint_dir |-> GetCheckpointDir(dit_handler),
                                    lm_model_path |-> lm_model_path,
                                    backend |-> backend,
                                    device |-> device,
                                    offload_to_cpu |-> auto_offload,
                                    dtype |-> dit_handler.dtype])
            /\ pc' = "SecondaryInProgress"
       ELSE /\ llm_calls' = llm_calls
            /\ pc' = "SecondaryDone"
    /\ stdout' = Append(stdout, "Initializing 5Hz LM: " \o lm_model_path \o "...")
    /\ UNCHANGED <<environ, cuda, gpu_memory_gb, auto_offload, dit_handler,
                   config_path, lm_model_path, backend, device,
                   use_flash_attention,
                   init_status, enable_generate, lm_status, lm_success,
                   dit_calls, dit_returns, llm_returns,
                   init_params, demo, raised>>

\* a call that leaves offload_to_cpu at the handler's default
InvokeSecondary_DefaultOffload ==
    /\ pc = "PrimaryDone"
    /\ llm_calls' = Append(llm_calls,
                           [checkpoint_dir |-> GetCheckpointDir(dit_handler),
                            lm_model_path |-> lm_model_path,
                            backend |-> backend,
                            device |-> device,
                            offload_to_cpu |-> FALSE,
                            dtype |-> dit_handler.dtype])
    /\ pc' = "SecondaryInProgress"
    /\ stdout' = Append(stdout, "Initializing 5Hz LM: " \o lm_model_path \o "...")
    /\ UNCHANGED <<environ, cuda, gpu_memory_gb, auto_offload, dit_handler,
                   config_path, lm_model_path, backend, device,
                   use_flash_attention,
                   init_status, enable_generate, lm_status, lm_success,
                   dit_calls, dit_returns, llm_returns,
                   init_params, demo, raised>>

\* a coordinator that reads the directory and the dtype before Stage 1
InvokeSecondary_ReadBeforeStage1 ==
    /\ pc = "PrimaryDone"
    /\ llm_calls' = Append(llm_calls,
                           [checkpoint_dir |-> GetCheckpointDir(NewHandler),
                            lm_model_path |-> lm_model_path,
                            backend |-> backend,
                            device |-> device,
                            offload_to_cpu |-> auto_offload,
                            dtype |-> NewHandler.dtype])
    /\ pc' = "SecondaryInProgress"
    /\ stdout' = Append(stdout, "Initializing 5Hz LM: " \o lm_model_path \o "...")
    /\ UNCHANGED <<environ, cuda, gpu_memory_gb, auto_offload, dit_handler,
                   config_path, lm_model_path, backend, device,
                   use_flash_attention,
                   init_status, enable_generate, lm_status, lm_success,
                   dit_calls, dit_returns, llm_returns,
                   init_params, demo, raised>>

\* lines 113-122: checkpoint_dir is read and llm_handler.initialize is called
InvokeSecondary ==
    /\ pc = "PrimaryDone"
    /\ llm_calls' = Append(llm_calls,
                           [checkpoint_dir |-> GetCheckpointDir(dit_handler),
                            lm_model_path |-> lm_model_path,
                            backend |-> backend,
                            device |-> device,
                            offload_to_cpu |-> auto_offload,
                            dtype |-> dit_handler.dtype])
    /\ pc' = "SecondaryInProgress"
    /\ stdout' = Append(stdout, "Initializing 5Hz LM: " \o lm_model_path \o "...")
    /\ UNCHANGED <<environ, cuda, gpu_memory_gb, auto_offload, dit_handler,
                   config_path, lm_model_path, backend, device,
                   use_flash_attention,
                   init_status, enable_generate, lm_status, lm_success,
                   dit_calls, dit_returns, llm_returns,
                   init_params, demo, raised>>

\* a coordinator that appends lm_status only in the success branch
SecondaryReturns_DropOnFailure ==
    /\ pc = "SecondaryInProgress"
    /\ \E msg \in LmMessages, ok \in BOOLEAN :
         /\ llm_returns' = Append(llm_returns, [status |-> msg, success |-> ok])
         /\ lm_status' = msg
         /\ lm_success' = ok
         /\ init_status' = IF ok THEN AppendStatus(init_status, msg)
                                 ELSE init_status
    /\ pc' = "SecondaryDone"
    /\ stdout' = IF lm_success'
               THEN Append(stdout, "5Hz LM initialized successfully")
               ELSE stdout
    /\ UNCHANGED <<environ, cuda, gpu_memory_gb, auto_offload, dit_handler,
                   config_path, lm_model_path, backend, device,
                   use_flash_attention, enable_generate,
                   dit_calls, dit_returns, llm_calls,
                   init_params, demo, raised>>

\* a coordinator that calls llm_handler.initialize again after a failure
SecondaryReturns_Retry ==
    /\ pc = "SecondaryInProgress"
    /\ \E msg \in LmMessages, ok \in BOOLEAN :
         /\ llm_returns' = Append(llm_returns, [status |-> msg, success |-> ok])
         /\ lm_status' = msg
         /\ lm_success' = ok
         /\ init_status' = AppendStatus(init_status, msg)
         /\ pc' = IF ok THEN "SecondaryDone" ELSE "PrimaryDone"
    /\ stdout' = IF lm_success'
               THEN Append(stdout, "5Hz LM initialized successfully")
               ELSE stdout
    /\ UNCHANGED <<environ, cuda, gpu_memory_gb, auto_offload, dit_handler,
                   config_path, lm_model_path, backend, device,
                   use_flash_attention, enable_generate,
                   dit_calls, dit_returns, llm_calls,
                   init_params, demo, raised>>

\* lines 115, 124-129: initialize returns (lm_status, lm_success) and the
\* status is appended to init_status in either branch
SecondaryReturns ==
    /\ pc = "SecondaryInProgress"
    /\ \E msg \in LmMessages, ok \in BOOLEAN :
         /\ llm_returns' = Append(llm_returns, [status |-> msg, success |-> ok])
         /\ lm_status' = msg
         /\ lm_success' = ok
         /\ init_status' = IF ok THEN AppendStatus(init_status, msg)
                                 ELSE AppendStatus(init_status, msg)
    /\ pc' = "SecondaryDone"
    /\ stdout' = IF lm_success'
               THEN Append(stdout, "5Hz LM initialized successfully")
               ELSE stdout
    /\ UNCHANGED <<environ, cuda, gpu_memory_gb, auto_offload, dit_handler,
                   config_path, lm_model_path, backend, device,
                   use_flash_attention, enable_generate,
                   dit_calls, dit_returns, llm_calls,
                   init_params, demo, raised>>

\* line 115 has no try: an exception in llm_handler.initialize leaves main()
SecondaryRaises ==
    /\ pc = "SecondaryInProgress"
    /\ pc' = "raised"
    /\ raised' = "initialize"
    /\ UNCHANGED <<environ, cuda, gpu_memory_gb, auto_offload, dit_handler,
                   config_path, lm_model_path, backend, device,
                   use_flash_attention,
                   init_status, enable_generate, lm_status, lm_success,
                   dit_calls, dit_returns, llm_calls, llm_returns,
                   init_params, demo, stdout>>

\* a record whose enable_generate also needs the LM to have succeeded
InitParams_BothRequired ==
    [pre_initialized |-> TRUE,
     service_mode |-> TRUE,
     config_path |-> config_path,
     device |-> device,
     init_llm |-> TRUE,
     lm_model_path |-> lm_model_path,
     backend |-> backend,
     use_flash_attention |-> use_flash_attention,
     offload_to_cpu |-> auto_offload,
     offload_dit_to_cpu |-> FALSE,
     init_status |-> init_status,
     enable_generate |-> (enable_generate /\ lm_success),
     language |-> "en",
     persistent_storage_path |-> persistent_storage_path]

\* lines 132-150: the init_params dict
InitParams ==
    [pre_initialized |-> TRUE,
     service_mode |-> TRUE,
     config_path |-> config_path,
     device |-> device,
     init_llm |-> TRUE,
     lm_model_path |-> lm_model_path,
     backend |-> backend,
     use_flash_attention |-> use_flash_attention,
     offload_to_cpu |-> auto_offload,
     offload_dit_to_cpu |-> FALSE,
     init_status |-> init_status,
     enable_generate |-> enable_generate,
     language |-> "en",
     persistent_storage_path |-> persistent_storage_path]

AssembleRecord ==
    /\ pc = "SecondaryDone"
    /\ init_params' = Append(init_params, InitParams)
    /\ pc' = "RecordAssembled"
    /\ stdout' = Append(stdout, "Service initialization completed!")
    /\ UNCHANGED <<environ, cuda, gpu_memory_gb, auto_offload, dit_handler,
                   config_path, lm_model_path, backend, device,
                   use_flash_attention,
                   init_status, enable_generate, lm_status, lm_success,
                   dit_calls, dit_returns, llm_calls, llm_returns,
                   demo, raised>>

\* lines 156-162: create_gradio_interface(..., init_params=init_params, ...)
CreateInterface ==
    /\ pc = "RecordAssembled"
    /\ demo' = [demo EXCEPT !.built = TRUE, !.init_params = init_params]
    /\ pc' = "InterfaceCreated"
    /\ stdout' = Append(stdout, FrontEndCallLine(pc))
    /\ UNCHANGED <<environ, cuda, gpu_memory_gb, auto_offload, dit_handler,
                   config_path, lm_model_path, backend, device,
                   use_flash_attention,
                   init_status, enable_generate, lm_status, lm_success,
                   dit_calls, dit_returns, llm_calls, llm_returns,
                   init_params, raised>>

\* a coordinator that goes on to launch without configuring the queue
EnableQueue_Skipped ==
    /\ pc = "InterfaceCreated"
    /\ demo' = demo
    /\ pc' = "QueueEnabled"
    /\ stdout' = Append(stdout, FrontEndCallLine(pc))
    /\ UNCHANGED <<environ, cuda, gpu_memory_gb, auto_offload, dit_handler,
                   config_path, lm_model_path, backend, device,
                   use_flash_attention,
                   init_status, enable_generate, lm_status, lm_success,
                   dit_calls, dit_returns, llm_calls, llm_returns,
                   init_params, raised>>

\* line 166: demo.queue(max_size=20)
EnableQueue ==
    /\ pc = "InterfaceCreated"
    /\ demo' = [demo EXCEPT !.queue_max_size = QueueMaxSize]
    /\ pc' = "QueueEnabled"
    /\ stdout' = Append(stdout, FrontEndCallLine(pc))
    /\ UNCHANGED <<environ, cuda, gpu_memory_gb, auto_offload, dit_handler,
                   config_path, lm_model_path, backend, device,
                   use_flash_attention,
                   init_status, enable_generate, lm_status, lm_success,
                   dit_calls, dit_returns, llm_calls, llm_returns,
                   init_params, raised>>

\* lines 170-175: demo.launch(server_name="0.0.0.0", server_port=7860, ...)
Launch ==
    /\ pc = "QueueEnabled"
    /\ demo' = [demo EXCEPT !.launched = TRUE]
    /\ pc' = "Serving"
    /\ stdout' = Append(stdout, FrontEndCallLine(pc))
    /\ UNCHANGED <<environ, cuda, gpu_memory_gb, auto_offload, dit_handler,
                   config_path, lm_model_path, backend, device,
                   use_flash_attention,
                   init_status, enable_generate, lm_status, lm_success,
                   dit_calls, dit_returns, llm_calls, llm_returns,
                   init_params, raised>>

\* the front-end is outside main's control: building or exposing it may raise
FrontEndRaises ==
    /\ pc \in {"RecordAssembled", "InterfaceCreated", "QueueEnabled"}
    /\ pc' = "raised"
    /\ raised' = "front_end"
    /\ stdout' = Append(stdout, FrontEndCallLine(pc))
    /\ UNCHANGED <<environ, cuda, gpu_memory_gb, auto_offload, dit_handler,
                   config_path, lm_model_path, backend, device,
                   use_flash_attention,
                   init_status, enable_generate, lm_status, lm_success,
                   dit_calls, dit_returns, llm_calls, llm_returns,
                   init_params, demo>>

Next ==
    \/ Probe
    \/ DeriveOffload
    \/ CreateHandlers
    \/ ReadConfig
    \/ QueryFlashAttention
    \/ InvokePrimary
    \/ PrimaryReturns
    \/ PrimaryRaises
    \/ InvokeSecondary
    \/ SecondaryReturns
    \/ SecondaryRaises
    \/ AssembleRecord
    \/ CreateInterface
    \/ EnableQueue
    \/ Launch
    \/ FrontEndRaises

Spec == Init /\ [][Next]_vars

\* main() is sequential code: a step that can be taken is taken
FairSpec == Spec /\ WF_vars(Next)

---------------------------------------------------------------------------
(* Properties *)

\* the order of main()'s positions in the source text
Stages == <<"start", "probed", "offload_derived", "handlers_created",
            "configured", "NotStarted", "PrimaryInProgress", "PrimaryDone",
            "SecondaryInProgress", "SecondaryDone", "RecordAssembled",
            "InterfaceCreated", "QueueEnabled", "Serving">>

StageIndex(p) == CHOOSE i \in 1..Len(Stages) : Stages[i] = p

\* the device answered the query with a total_memory
DeviceReported == cuda.is_available = "True" /\ cuda.properties = "ok"

\* C1: once initialize_service has returned, with enable_generate true or
\* false, llm_handler.initialize is invoked; and it is never invoked before
\* initialize_service has returned.
C1_SecondaryAlwaysInvoked ==
    /\ [](Len(llm_calls) > 0 => Len(dit_returns) > 0)
    /\ \A ok \in BOOLEAN :
         (Len(dit_returns) > 0 /\ dit_returns[1].success = ok)
            ~> (Len(llm_calls) > 0)

C1_Witness ==
    /\ Len(dit_returns) = 1
    /\ ~dit_returns[1].success
    /\ Len(llm_calls) = 1
    /\ pc = "SecondaryInProgress"

\* C2: no exception raised inside get_gpu_memory_gb, initialize_service or
\* llm_handler.initialize leaves main().
C2_NoFaultEscapes ==
    raised \notin {"get_gpu_memory_gb", "initialize_service", "initialize"}

\* C3: init_params['enable_generate'] is the flag initialize_service
\* returned, whatever llm_handler.initialize returned.
C3_GenerationEnabledIsPrimary ==
    Len(init_params) > 0 =>
        /\ Len(dit_returns) = 1
        /\ Len(llm_returns) = 1
        /\ init_params[1].enable_generate = dit_returns[1].success

C3_Witness ==
    /\ Len(init_params) = 1
    /\ dit_returns[1].success
    /\ ~llm_returns[1].success
    /\ init_params[1].enable_generate

\* C4: init_params['init_status'] is the status initialize_service returned,
\* then the status llm_handler.initialize returned, each once and whole,
\* joined by the newline main() puts between them.
C4_TranscriptInOrder ==
    Len(init_params) > 0 =>
        init_params[1].init_status =
            dit_returns[1].status \o "\n" \o llm_returns[1].status

C4_Witness ==
    /\ Len(init_params) = 1
    /\ ~dit_returns[1].success
    /\ ~llm_returns[1].success
    /\ dit_returns[1].status = "error: no weights\nsee log"
    /\ llm_returns[1].status = "ok"
    /\ init_params[1].init_status = "error: no weights\nsee log\nok"

\* C5: auto_offload is true exactly when the probed reading m satisfies
\* 0 < m < 16; it is false at m = 0 and at m = 16.
C5_OffloadIffBelowThreshold ==
    pc \notin {"start", "probed"} =>
        LET m == gpu_memory_gb IN
          /\ auto_offload <=> (m.num > 0 /\ m.num < 16 * m.den)
          /\ m.num = 0 => ~auto_offload
          /\ m.num >= 16 * m.den => ~auto_offload

C5_Witness ==
    /\ pc = "offload_derived"
    /\ gpu_memory_gb.num = 16 * gpu_memory_gb.den
    /\ ~auto_offload

\* C6: whatever exceptions occur in get_gpu_memory_gb, initialize_service
\* or llm_handler.initialize, the run assembles its one init_params and
\* builds the interface from it (unless building the interface itself
\* fails); no more than one init_params is ever assembled.
C6_RunsToCompletion ==
    /\ [](Len(init_params) <= 1)
    /\ <>(\/ /\ Len(init_params) = 1
             /\ demo.built
             /\ demo.init_params = init_params
          \/ raised = "front_end")

\* C7: main() moves through its positions one by one in the order of Stages,
\* never backward and never to a position it has left; llm_handler.initialize
\* is not called until initialize_service has returned.
C7_LinearOrder ==
    /\ [][pc' = "raised" \/ StageIndex(pc') = StageIndex(pc) + 1]_vars
    /\ [](Len(llm_calls) > 0 =>
            Len(dit_calls) = 1 /\ Len(dit_returns) = 1)
    /\ [](Len(init_params) > 0 =>
            Len(llm_calls) = 1 /\ Len(llm_returns) = 1)
    /\ [](demo.built => Len(init_params) = 1)

C7_Witness ==
    /\ pc = "Serving"
    /\ Len(dit_returns) = 1
    /\ Len(llm_returns) = 1
    /\ Len(init_params) = 1
    /\ demo.launched

\* C8: get_gpu_memory_gb returns for every behaviour of torch.cuda, the
\* value is never negative, and it is 0 when no device is available or a
\* query raises; no exception leaves it.
C8_ProbeTotal ==
    /\ raised # "get_gpu_memory_gb"
    /\ pc # "start" =>
        /\ gpu_memory_gb.den > 0
        /\ gpu_memory_gb.num >= 0
        /\ ~DeviceReported => gpu_memory_gb.num = 0
        /\ DeviceReported =>
             gpu_memory_gb.num * UnitsPerGB = cuda.total_memory * gpu_memory_gb.den

C8_Witness ==
    /\ pc = "probed"
    /\ cuda.is_available = "True"
    /\ cuda.properties = "raise"
    /\ gpu_memory_gb.num = 0

\* C9: the offload_to_cpu given to initialize_service, the one given to
\* llm_handler.initialize and the one in init_params all equal the value
\* derived from the probed reading before Stage 1.
C9_OneOffloadValue ==
    LET m == gpu_memory_gb
        derived == m.num > 0 /\ m.num < 16 * m.den
    IN /\ \A i \in 1..Len(dit_calls) : dit_calls[i].offload_to_cpu = derived
       /\ \A i \in 1..Len(llm_calls) : llm_calls[i].offload_to_cpu = derived
       /\ \A i \in 1..Len(init_params) : init_params[i].offload_to_cpu = derived
       /\ pc \notin {"start", "probed"} => auto_offload = derived

C9_Witness ==
    /\ gpu_memory_gb.num = 8 * gpu_memory_gb.den
    /\ Len(init_params) = 1
    /\ dit_calls[1].offload_to_cpu
    /\ llm_calls[1].offload_to_cpu
    /\ init_params[1].offload_to_cpu

\* C10: config_path, lm_model_path and backend each hold the value of their
\* environment variable when it is set and their built-in default when it
\* is not; device is "auto" whatever the environment holds.
C10_OverridesWin ==
    pc \notin {"start", "probed", "offload_derived", "handlers_created"} =>
        /\ "SERVICE_MODE_DIT_MODEL" \in DOMAIN environ =>
             config_path = environ["SERVICE_MODE_DIT_MODEL"]
        /\ "SERVICE_MODE_DIT_MODEL" \notin DOMAIN environ =>
             config_path = "acestep-v15-turbo-fix-inst-shift-dynamic"
        /\ "SERVICE_MODE_LM_MODEL" \in DOMAIN environ =>
             lm_model_path = environ["SERVICE_MODE_LM_MODEL"]
        /\ "SERVICE_MODE_LM_MODEL" \notin DOMAIN environ =>
             lm_model_path = "acestep-5Hz-lm-1.7B-v4-fix"
        /\ "SERVICE_MODE_BACKEND" \in DOMAIN environ =>
             backend = environ["SERVICE_MODE_BACKEND"]
        /\ "SERVICE_MODE_BACKEND" \notin DOMAIN environ =>
             backend = "vllm"
        /\ device = "auto"
        /\ auto_offload = (gpu_memory_gb.num > 0
                           /\ gpu_memory_gb.num < 16 * gpu_memory_gb.den)

C10_Witness ==
    /\ pc = "configured"
    /\ DOMAIN environ = {"SERVICE_MODE_BACKEND", "SERVICE_MODE_LM_MODEL"}
    /\ environ["SERVICE_MODE_BACKEND"] = "alt-backend"
    /\ environ["SERVICE_MODE_LM_MODEL"] = ""
    /\ backend = "alt-backend"
    /\ lm_model_path = ""
    /\ config_path = "acestep-v15-turbo-fix-inst-shift-dynamic"
    /\ device = "auto"

\* C11: initialize_service and llm_handler.initialize are each called at most
\* once in a run, whatever they report, and each has been called exactly
\* once when the run has come through both stages.
C11_NoRetry ==
    /\ Len(dit_calls) <= 1
    /\ Len(llm_calls) <= 1
    /\ Len(dit_returns) <= Len(dit_calls)
    /\ Len(llm_returns) <= Len(llm_calls)
    /\ pc \in {"SecondaryDone", "RecordAssembled", "InterfaceCreated",
               "QueueEnabled", "Serving"} =>
          Len(dit_calls) = 1 /\ Len(llm_calls) = 1

C11_Witness ==
    /\ pc = "Serving"
    /\ ~dit_returns[1].success
    /\ ~llm_returns[1].success
    /\ Len(dit_calls) = 1
    /\ Len(llm_calls) = 1

\* sub occurs in the string s
Contains(s, sub) ==
    \E i \in 1..(Len(s) - Len(sub) + 1) : SubSeq(s, i, i + Len(sub) - 1) = sub

\* the lines of stdout that say no GPU was found
NoGpuLines == {i \in 1..Len(stdout) : stdout[i] = "No GPU detected, running on CPU"}

\* C12 as stated: when the probe returns 0, offload is false and the status
\* transcript in init_params notes that no accelerator was detected.
C12_TranscriptNotesNoGpu ==
    (Len(init_params) > 0 /\ gpu_memory_gb.num = 0) =>
        /\ ~init_params[1].offload_to_cpu
        /\ Contains(init_params[1].init_status, "No GPU detected")

\* C12 as amended: when the probe returns 0, offload is false and main()
\* prints "No GPU detected, running on CPU" once to standard output (and
\* prints it for no other reading); the transcript in init_params holds the
\* two handlers' status strings and nothing main() adds about the GPU.
C12_NoGpuPrinted ==
    pc \notin {"start", "probed"} =>
        /\ gpu_memory_gb.num = 0 =>
             /\ ~auto_offload
             /\ Cardinality(NoGpuLines) = 1
             /\ Len(init_params) > 0 =>
                  /\ ~init_params[1].offload_to_cpu
                  /\ init_params[1].init_status =
                       dit_returns[1].status \o "\n" \o llm_returns[1].status
        /\ gpu_memory_gb.num > 0 => NoGpuLines = {}

C12_Witness ==
    /\ Len(init_params) = 1
    /\ cuda.is_available = "False"
    /\ gpu_memory_gb.num = 0
    /\ ~init_params[1].offload_to_cpu
    /\ stdout[1] = "No GPU detected, running on CPU"
    /\ init_params[1].init_status = "ok\nok"

\* the string s begins with p
StartsWith(s, p) == Len(p) <= Len(s) /\ SubSeq(s, 1, Len(p)) = p

\* the string s ends with p
EndsWith(s, p) ==
    Len(p) <= Len(s) /\ SubSeq(s, Len(s) - Len(p) + 1, Len(s)) = p

\* C13 as stated: init_params carries, for the DiT handler and then for the
\* LM handler, the status message and the success flag it returned, a
\* failure included.
C13_OutcomesInRecord ==
    Len(init_params) > 0 =>
        /\ StartsWith(init_params[1].init_status, dit_returns[1].status)
        /\ EndsWith(init_params[1].init_status, llm_returns[1].status)
        /\ init_params[1].enable_generate = dit_returns[1].success
        /\ init_params[1].init_llm = llm_returns[1].success

\* C13 as amended: init_params carries both status messages, the DiT
\* handler's before the LM handler's, and the DiT handler's success flag,
\* also when a handler failed; the LM handler's flag is not in the record,
\* whose init_llm is True whatever the LM handler returned.
C13_MessagesAndPrimaryFlag ==
    Len(init_params) > 0 =>
        /\ StartsWith(init_params[1].init_status, dit_returns[1].status)
        /\ EndsWith(init_params[1].init_status, llm_returns[1].status)
        /\ Len(init_params[1].init_status) =
             Len(dit_returns[1].status) + 1 + Len(llm_returns[1].status)
        /\ init_params[1].enable_generate = dit_returns[1].success
        /\ init_params[1].init_llm

C13_Witness ==
    /\ Len(init_params) = 1
    /\ ~dit_returns[1].success
    /\ ~llm_returns[1].success
    /\ dit_returns[1].status = "error: no weights\nsee log"
    /\ llm_returns[1].status = ""
    /\ init_params[1].init_status = "error: no weights\nsee log\n"
    /\ ~init_params[1].enable_generate
    /\ init_params[1].init_llm

\* C15: the checkpoint_dir and the dtype given to llm_handler.initialize are
\* the ones dit_handler has once initialize_service has returned, whether
\* it returned success or failure.
C15_SecondaryGetsStage1Values ==
    \A i \in 1..Len(llm_calls) :
        /\ Len(dit_returns) = 1
        /\ dit_handler \in HandlerStates
        /\ llm_calls[i].checkpoint_dir = dit_handler.checkpoint_dir
        /\ llm_calls[i].dtype = dit_handler.dtype

C15_Witness ==
    /\ Len(llm_calls) = 1
    /\ ~dit_returns[1].success
    /\ dit_handler # NewHandler
    /\ llm_calls[1].dtype = "float32"
    /\ llm_calls[1].checkpoint_dir = "/data/checkpoints"

\* C16: the interface is built only after llm_handler.initialize has
\* returned, its queue has max_size 20 before it is launched, and it is
\* never launched without the queue, whatever the two handlers reported.
C16_QueueBeforeLaunch ==
    /\ demo.built =>
         /\ Len(dit_returns) = 1
         /\ Len(llm_returns) = 1
         /\ demo.init_params = init_params
    /\ demo.queue_max_size \in {0, 20}
    /\ demo.queue_max_size = 20 => demo.built
    /\ pc = "QueueEnabled" => demo.queue_max_size = 20 /\ ~demo.launched
    /\ demo.launched => demo.built /\ demo.queue_max_size = 20

C16_Witness ==
    /\ pc = "Serving"
    /\ demo.launched
    /\ demo.queue_max_size = 20
    /\ ~dit_returns[1].success
    /\ ~llm_returns[1].success

====
